---- MODULE Spec2Model ----
(***************************************************************************)
(* Model of alarm_sales_app.py, the STL sales-quoting calculator.          *)
(*                                                                         *)
(* Money.  The program computes with Python floats.  Every amount here is  *)
(* an exact rational held as an integer number of 1/Scale kronor, where    *)
(* Scale = 360 is the least common multiple of the seven payment terms, so *)
(* that financed_amount / months is exact for every whole-krona amount.    *)
(* The results are therefore the real-number values of the program's       *)
(* expressions; the last-bit rounding of IEEE doubles is not represented.  *)
(*                                                                         *)
(* The module holds several specifications over one set of variables:      *)
(*   SpecPlans  compute_plans applied to bounded financed amounts          *)
(*   SpecMatch  the two plan matchers applied to bounded plan lists        *)
(*   SpecBonus  the net-sales widget and bonus_for_net_sales               *)
(*   Spec       the quote script: sidebar widgets and the values one run   *)
(*              of the script derives from them                            *)
(*   SpecClick  the two buttons of the quote, clicked in any widget state  *)
(*   SpecStore  the customer list, the session and customers.json          *)
(* A specification parks the variables it does not use at <<>>.            *)
(***************************************************************************)
EXTENDS Integers, Sequences, FiniteSets, TLC

VARIABLES
    financed_amount,    \* argument of compute_plans
    plans,              \* a plan list: result of compute_plans / argument of the matchers
    target_monthly,     \* argument of the matchers
    tolerance,          \* argument of choose_discount_plan_to_match_price
    ret,                \* what the last matcher call returned
    net_sales_month,    \* sidebar widget "Nettoförsäljningar denna månad"
    monthly_bonus,      \* bonus_for_net_sales(int(net_sales_month)) of the last run
    widgets,            \* the sidebar widgets of the quote
    locals,             \* the values the last script run computed from the widgets
    shown,              \* what the button clicked in the last run produced
    disk,               \* customers.json
    customers,          \* st.session_state.customers
    loaded,             \* history: what load_customers returned when the session began
    clicks,             \* history: the records of this session's save clicks, in order
    notice,             \* what the last save click showed to the user
    io                  \* history: how the session's load and the last save's write went

vars == <<financed_amount, plans, target_monthly, tolerance, ret,
          net_sales_month, monthly_bonus, widgets, locals, shown,
          disk, customers, loaded, clicks, notice, io>>

fnVars == <<financed_amount, plans, target_monthly, tolerance, ret>>
bonusVars == <<net_sales_month, monthly_bonus>>
quoteVars == <<widgets, locals, shown>>
storeVars == <<disk, customers, loaded, clicks, notice, io>>

FnParked ==
    /\ financed_amount = <<>> /\ plans = <<>> /\ target_monthly = <<>>
    /\ tolerance = <<>> /\ ret = <<>>
BonusParked == net_sales_month = <<>> /\ monthly_bonus = <<>>
QuoteParked == widgets = <<>> /\ locals = <<>> /\ shown = <<>>
StoreParked ==
    /\ disk = <<>> /\ customers = <<>> /\ loaded = <<>>
    /\ clicks = <<>> /\ notice = <<>> /\ io = <<>>

----------------------------------------------------------------------------
(* Units *)

Scale == 360

Kr(x) == x * Scale

Abs(x) == IF x < 0 THEN -x ELSE x

----------------------------------------------------------------------------
(* Constants of the program *)

BASE_OVER_70 == 30990
BASE_UNDER_70 == 32400

EXTRA_MAGNET == 1000
EXTRA_CAMERA == 2200
EXTRA_FIRE == 2000

START_FEE == 594
ADMIN_MONTHLY == 49
INSTALLATION_COST == 5000

PAYMENT_OPTIONS ==
    << <<"90 dagar (3 mån)", 3>>,
       <<"12 månader", 12>>,
       <<"24 månader", 24>>,
       <<"36 månader", 36>>,
       <<"60 månader", 60>>,
       <<"72 månader", 72>>,
       <<"120 månader", 120>> >>

\* None, where the program holds None in a variable that otherwise holds a plan
None == [label |-> "None", months |-> 0, monthly |-> 0, total |-> 0]

----------------------------------------------------------------------------
(* compute_plans *)

\* a mutation: the start fee is charged every month instead of once
compute_plans_fee_monthly(amount) ==
    [i \in 1..Len(PAYMENT_OPTIONS) |->
        LET months == PAYMENT_OPTIONS[i][2]
            monthly_total == (amount \div months) + Kr(ADMIN_MONTHLY) + Kr(START_FEE)
        IN  [label |-> PAYMENT_OPTIONS[i][1], months |-> months,
             monthly |-> monthly_total, total |-> monthly_total * months]]

\* amount is in 1/Scale kronor; amount \div months is exact for whole kronor
compute_plans(amount) ==
    [i \in 1..Len(PAYMENT_OPTIONS) |->
        LET label == PAYMENT_OPTIONS[i][1]
            months == PAYMENT_OPTIONS[i][2]
            monthly_fin == amount \div months
            monthly_total == monthly_fin + Kr(ADMIN_MONTHLY)
            total_cost == monthly_total * months + Kr(START_FEE)
        IN  [label |-> label, months |-> months,
             monthly |-> monthly_total, total |-> total_cost]]

----------------------------------------------------------------------------
(* Python's max(seq, key=...) and min(seq, key=...): the first element      *)
(* whose key is the largest / smallest.  The sequence is not empty.         *)

FirstMaxMonthly(s) ==
    s[CHOOSE i \in 1..Len(s) :
        /\ \A j \in 1..Len(s) : s[j].monthly <= s[i].monthly
        /\ \A j \in 1..(i - 1) : s[j].monthly < s[i].monthly]

FirstMinMonthly(s) ==
    s[CHOOSE i \in 1..Len(s) :
        /\ \A j \in 1..Len(s) : s[i].monthly <= s[j].monthly
        /\ \A j \in 1..(i - 1) : s[i].monthly < s[j].monthly]

\* min(plans, key=lambda p: abs(p["monthly"] - target))
FirstNearest(s, target) ==
    s[CHOOSE i \in 1..Len(s) :
        /\ \A j \in 1..Len(s) :
              Abs(s[i].monthly - target) <= Abs(s[j].monthly - target)
        /\ \A j \in 1..(i - 1) :
              Abs(s[i].monthly - target) < Abs(s[j].monthly - target)]

\* the tuple order of the sort key (months, abs(monthly - target))
KeyLess(p, q, target) ==
    \/ p.months < q.months
    \/ /\ p.months = q.months
       /\ Abs(p.monthly - target) < Abs(q.monthly - target)

\* candidates.sort(key=...) is stable, so candidates[0] afterwards is the
\* first element of the unsorted list that no other element precedes in key
FirstBySortKey(s, target) ==
    s[CHOOSE i \in 1..Len(s) :
        /\ \A j \in 1..Len(s) : ~KeyLess(s[j], s[i], target)
        /\ \A j \in 1..(i - 1) : KeyLess(s[i], s[j], target)]

----------------------------------------------------------------------------
(* choose_best_plan_for_budget *)

\* a mutation: the cheapest plan under the budget instead of the dearest
choose_best_plan_for_budget_min(ps, target) ==
    LET under_or_equal == SelectSeq(ps, LAMBDA p : p.monthly <= target)
    IN  IF under_or_equal # <<>>
        THEN [plan |-> FirstMinMonthly(under_or_equal), status |-> "within"]
        ELSE [plan |-> FirstMinMonthly(ps), status |-> "above"]

\* a mutation: the filter is strict, a plan exactly on the budget is left out
choose_best_plan_for_budget_strict(ps, target) ==
    LET under_or_equal == SelectSeq(ps, LAMBDA p : p.monthly < target)
    IN  IF under_or_equal # <<>>
        THEN [plan |-> FirstMaxMonthly(under_or_equal), status |-> "within"]
        ELSE [plan |-> FirstMinMonthly(ps), status |-> "above"]

choose_best_plan_for_budget(ps, target) ==
    LET under_or_equal == SelectSeq(ps, LAMBDA p : p.monthly <= target)
    IN  IF under_or_equal # <<>>
        THEN [plan |-> FirstMaxMonthly(under_or_equal), status |-> "within"]
        ELSE [plan |-> FirstMinMonthly(ps), status |-> "above"]

----------------------------------------------------------------------------
(* choose_discount_plan_to_match_price *)

\* a mutation: among the candidates the closest wins, whatever its term
choose_discount_plan_closest_first(ps, target, tol) ==
    LET lower == target - tol
        upper == target + tol
        candidates == SelectSeq(ps, LAMBDA p : lower <= p.monthly /\ p.monthly <= upper)
    IN  IF candidates # <<>>
        THEN [plan |-> FirstNearest(candidates, target), within_tol |-> TRUE]
        ELSE [plan |-> FirstNearest(ps, target), within_tol |-> FALSE]

\* a mutation: with no candidate the cheapest plan is returned
choose_discount_plan_fallback_min(ps, target, tol) ==
    LET lower == target - tol
        upper == target + tol
        candidates == SelectSeq(ps, LAMBDA p : lower <= p.monthly /\ p.monthly <= upper)
    IN  IF candidates # <<>>
        THEN [plan |-> FirstBySortKey(candidates, target), within_tol |-> TRUE]
        ELSE [plan |-> FirstMinMonthly(ps), within_tol |-> FALSE]

choose_discount_plan_to_match_price(ps, target, tol) ==
    LET lower == target - tol
        upper == target + tol
        candidates == SelectSeq(ps, LAMBDA p : lower <= p.monthly /\ p.monthly <= upper)
    IN  IF candidates # <<>>
        THEN [plan |-> FirstBySortKey(candidates, target), within_tol |-> TRUE]
        ELSE [plan |-> FirstNearest(ps, target), within_tol |-> FALSE]

----------------------------------------------------------------------------
(* SpecPlans: compute_plans on bounded financed amounts *)

\* financed amounts are the whole kronor up to MaxFinanced and three amounts
\* the quote script produces
MaxFinanced == 60

FinancedAmounts ==
    {Kr(k) : k \in 0..MaxFinanced} \cup {Kr(35990), Kr(36990), Kr(37400)}

\* budgets tried on the plans of a financed amount
BudgetChoices == {Kr(0), Kr(50), Kr(60), Kr(800), Kr(20000)}

InitPlans ==
    /\ financed_amount \in FinancedAmounts
    /\ plans = <<>>
    /\ target_monthly = <<>>
    /\ tolerance = <<>>
    /\ ret = [fn |-> "none"]
    /\ BonusParked /\ QuoteParked /\ StoreParked

ComputePlans ==
    /\ plans = <<>>
    /\ plans' = compute_plans(financed_amount)
    /\ UNCHANGED <<financed_amount, target_monthly, tolerance, ret>>
    /\ UNCHANGED <<bonusVars, quoteVars, storeVars>>

\* plans_full = compute_plans(...) is handed to choose_best_plan_for_budget
BudgetOnPlans ==
    /\ plans # <<>>
    /\ \E budget \in BudgetChoices :
          /\ target_monthly' = budget
          /\ ret' = [fn |-> "choose_best_plan_for_budget",
                     result |-> choose_best_plan_for_budget(plans, budget)]
    /\ UNCHANGED <<financed_amount, plans, tolerance>>
    /\ UNCHANGED <<bonusVars, quoteVars, storeVars>>

NextPlans == ComputePlans \/ BudgetOnPlans

SpecPlans == InitPlans /\ [][NextPlans]_vars

----------------------------------------------------------------------------
(* SpecMatch: the matchers on bounded plan lists *)

MaxPlans == 3
MaxMonthly == 2
MaxTol == 1

MatchMonths == {12, 24}
MatchLabels == <<"a", "b", "c", "d", "e">>

\* every non-empty list of at most MaxPlans plans, a plan's term drawn from
\* MatchMonths and its monthly payment from 0..MaxMonthly
PlanLists ==
    UNION {
        {[i \in 1..n |->
            [label |-> MatchLabels[i], months |-> ms[i], monthly |-> mo[i],
             total |-> mo[i] * ms[i] + START_FEE]] :
            ms \in [1..n -> MatchMonths], mo \in [1..n -> 0..MaxMonthly]}
        : n \in 1..MaxPlans}

InitMatch ==
    /\ financed_amount = <<>>
    /\ plans \in PlanLists
    /\ target_monthly \in 0..(MaxMonthly + 1)
    /\ tolerance \in 0..MaxTol
    /\ ret = [fn |-> "none"]
    /\ BonusParked /\ QuoteParked /\ StoreParked

CallBudget ==
    /\ ret' = [fn |-> "choose_best_plan_for_budget",
               result |-> choose_best_plan_for_budget(plans, target_monthly)]
    /\ UNCHANGED <<financed_amount, plans, target_monthly, tolerance>>
    /\ UNCHANGED <<bonusVars, quoteVars, storeVars>>

CallDiscount ==
    /\ ret' = [fn |-> "choose_discount_plan_to_match_price",
               result |-> choose_discount_plan_to_match_price(
                              plans, target_monthly, tolerance)]
    /\ UNCHANGED <<financed_amount, plans, target_monthly, tolerance>>
    /\ UNCHANGED <<bonusVars, quoteVars, storeVars>>

NextMatch == CallBudget \/ CallDiscount

SpecMatch == InitMatch /\ [][NextMatch]_vars

----------------------------------------------------------------------------
(* Claims about compute_plans, checked under SpecPlans *)

\* C1: compute_plans returns one plan for each of the seven terms 3, 12, 24,
\* 36, 60, 72, 120 in that order; each plan has monthly = financed/term + 49
\* and total = monthly*term + 594 = financed + 49*term + 594; financed 36990
\* over 12 months gives monthly 3131.50 and total 38172.00.
C1_PlanArithmetic ==
    plans # <<>> =>
        /\ Len(plans) = 7
        /\ [i \in 1..7 |-> plans[i].months] = <<3, 12, 24, 36, 60, 72, 120>>
        /\ \A i \in 1..7 :
              LET p == plans[i]
              IN  /\ p.monthly * p.months = financed_amount + 49 * Scale * p.months
                  /\ p.total = p.monthly * p.months + 594 * Scale
                  /\ p.total = financed_amount + (49 * p.months + 594) * Scale
        /\ financed_amount = 36990 * Scale =>
              /\ 2 * plans[2].monthly = 6263 * Scale
              /\ plans[2].total = 38172 * Scale

C1_Witness ==
    /\ plans # <<>>
    /\ financed_amount = 36990 * Scale
    /\ plans[2].months = 12

\* C14: for a financed amount > 0 the monthly payments fall strictly and the
\* totals rise strictly along the list; so within the budget the matcher
\* returns the first plan, the one of the shortest term, whose monthly is
\* <= budget, and over the budget it returns the 120-month plan.
C14_MonotonePlans ==
    (plans # <<>> /\ financed_amount > 0) =>
        /\ \A i \in 1..6 :
              /\ plans[i].monthly > plans[i + 1].monthly
              /\ plans[i].total < plans[i + 1].total
              /\ plans[i].months < plans[i + 1].months
        /\ ret.fn = "choose_best_plan_for_budget" =>
              LET within == {i \in 1..7 : plans[i].monthly <= target_monthly}
              IN  IF within # {}
                  THEN /\ ret.result.status = "within"
                       /\ \E i \in within :
                             /\ ret.result.plan = plans[i]
                             /\ \A j \in within : i <= j
                  ELSE /\ ret.result.status = "above"
                       /\ ret.result.plan = plans[7]
                       /\ ret.result.plan.months = 120

\* some but not all plans are within the budget, and the matcher has returned
C14_Witness ==
    /\ plans # <<>>
    /\ financed_amount > 0
    /\ ret.fn = "choose_best_plan_for_budget"
    /\ plans[1].monthly > target_monthly
    /\ plans[6].monthly <= target_monthly

----------------------------------------------------------------------------
(* Claims about the matchers, checked under SpecMatch *)

PlanIndexes == 1..Len(plans)

\* the plans the budget admits
Affordable == {i \in PlanIndexes : plans[i].monthly <= target_monthly}

\* the plans inside the tolerance band
InBand ==
    {i \in PlanIndexes :
        /\ target_monthly - tolerance <= plans[i].monthly
        /\ plans[i].monthly <= target_monthly + tolerance}

Distance(i) == Abs(plans[i].monthly - target_monthly)

BudgetReturned == ret.fn = "choose_best_plan_for_budget"
DiscountReturned == ret.fn = "choose_discount_plan_to_match_price"

\* C2: if some plan's monthly is <= budget, the returned plan's monthly is
\* <= budget and is the largest such monthly; otherwise the returned plan has
\* the lowest monthly of all plans.
C2_BudgetChoice ==
    BudgetReturned =>
        LET best == ret.result.plan
        IN  /\ \E i \in PlanIndexes : best = plans[i]
            /\ Affordable # {} =>
                  /\ best.monthly <= target_monthly
                  /\ \A i \in Affordable : plans[i].monthly <= best.monthly
            /\ Affordable = {} =>
                  \A i \in PlanIndexes : best.monthly <= plans[i].monthly

C2_Witness ==
    /\ BudgetReturned
    /\ \E i, j \in Affordable, k \in PlanIndexes \ Affordable :
          plans[i].monthly < plans[j].monthly

\* C7: the status is "within" exactly when some plan's monthly is <= budget
\* and "above" otherwise; with "above" the returned monthly exceeds the budget.
C7_BudgetStatus ==
    BudgetReturned =>
        /\ ret.result.status \in {"within", "above"}
        /\ ret.result.status = "within" <=> Affordable # {}
        /\ ret.result.status = "above" => ret.result.plan.monthly > target_monthly

C7_Witness ==
    /\ BudgetReturned
    /\ ret.result.status = "above"
    /\ Len(plans) > 1

\* C3: if some plan lies in [target - tol, target + tol], the returned plan is
\* a plan of the band with the shortest term among them, no plan of the band
\* with that term is closer to the target, and the flag is True.
C3_DiscountWithinBand ==
    (DiscountReturned /\ InBand # {}) =>
        LET chosen == ret.result.plan
        IN  /\ ret.result.within_tol = TRUE
            /\ \E i \in InBand : chosen = plans[i]
            /\ \A i \in InBand :
                  /\ chosen.months <= plans[i].months
                  /\ plans[i].months = chosen.months =>
                        Abs(chosen.monthly - target_monthly) <= Distance(i)

\* the band holds a short-term plan, a closer plan of a longer term, and a
\* second plan of the short term at another distance
C3_Witness ==
    /\ DiscountReturned
    /\ \E i, j, k \in InBand :
          /\ plans[i].months < plans[j].months
          /\ Distance(j) < Distance(i)
          /\ plans[k].months = plans[i].months
          /\ Distance(k) < Distance(i)

\* C4: the flag is True exactly when some plan lies in the band; when none
\* does, the returned plan minimises |monthly - target| over all plans.
C4_DiscountOutsideBand ==
    DiscountReturned =>
        LET chosen == ret.result.plan
        IN  /\ ret.result.within_tol = (InBand # {})
            /\ InBand = {} =>
                  /\ ret.result.within_tol = FALSE
                  /\ \E i \in PlanIndexes : chosen = plans[i]
                  /\ \A i \in PlanIndexes :
                        Abs(chosen.monthly - target_monthly) <= Distance(i)

\* no plan in the band, and the nearest plan is not the cheapest
C4_Witness ==
    /\ DiscountReturned
    /\ InBand = {}
    /\ \E i, j \in PlanIndexes :
          /\ plans[i].monthly < plans[j].monthly
          /\ Distance(j) < Distance(i)

----------------------------------------------------------------------------
(* SpecBonus: the net-sales widget and bonus_for_net_sales *)

\* a mutation: the thresholds are exclusive
bonus_for_net_sales_exclusive(net_sales) ==
    IF net_sales > 50 THEN 50000
    ELSE IF net_sales > 40 THEN 40000
    ELSE IF net_sales > 30 THEN 30000
    ELSE IF net_sales > 20 THEN 15000
    ELSE IF net_sales > 15 THEN 10000
    ELSE IF net_sales > 10 THEN 5000
    ELSE 0

bonus_for_net_sales(net_sales) ==
    IF net_sales >= 50 THEN 50000
    ELSE IF net_sales >= 40 THEN 40000
    ELSE IF net_sales >= 30 THEN 30000
    ELSE IF net_sales >= 20 THEN 15000
    ELSE IF net_sales >= 15 THEN 10000
    ELSE IF net_sales >= 10 THEN 5000
    ELSE 0

\* the widget takes any whole number >= 0; the model stops at MaxNetSales
MaxNetSales == 120

\* the first run of the script: the widget shows its default, value=0
InitBonus ==
    /\ net_sales_month = 0
    /\ monthly_bonus = bonus_for_net_sales(0)
    /\ FnParked /\ QuoteParked /\ StoreParked

\* the user enters a number; the script reruns and recomputes the bonus
SetNetSales ==
    \E n \in 0..MaxNetSales :
        /\ net_sales_month' = n
        /\ monthly_bonus' = bonus_for_net_sales(n)
        /\ UNCHANGED <<fnVars, quoteVars, storeVars>>

NextBonus == SetNetSales

SpecBonus == InitBonus /\ [][NextBonus]_vars

\* C6: the bonus is the single tier of the net-sales count, thresholds
\* inclusive and nothing accumulated: 0 below 10, 5000 for 10-14, 10000 for
\* 15-19, 15000 for 20-29, 30000 for 30-39, 40000 for 40-49, 50000 from 50;
\* and a count that does not go down never lowers the bonus.
C6_BonusTiers ==
    /\ [](monthly_bonus =
            CASE net_sales_month \in 0..9 -> 0
              [] net_sales_month \in 10..14 -> 5000
              [] net_sales_month \in 15..19 -> 10000
              [] net_sales_month \in 20..29 -> 15000
              [] net_sales_month \in 30..39 -> 30000
              [] net_sales_month \in 40..49 -> 40000
              [] OTHER -> 50000)
    /\ [][net_sales_month' >= net_sales_month => monthly_bonus' >= monthly_bonus]_vars

C6_Witness == net_sales_month = 49 /\ monthly_bonus = 40000

----------------------------------------------------------------------------
(* Spec: the quote script.  Streamlit runs the script from top to bottom   *)
(* after every change of a widget; locals holds what that run computed.    *)

BASE_COMMISSION_PER_DEAL == 2500
\* the three rates are held in percent: 0.20, 0.10, 0.20
INSTALL_COMMISSION_RATE == 20
UPSELL_COMMISSION_RATE == 10
COMPENSATION_PENALTY_RATE == 20
\* 25.50 kr per mil, held in öre
MILE_COMP == 2550

\* x * rate for a rate held in percent; exact for the amounts of the script
Percent(x, rate) == (x * rate) \div 100

\* charged_magnet, charged_camera, charged_fire: an extra is billed when its
\* count is positive and its "Bjud på ALLA ..." checkbox is not ticked.  The
\* checkbox is only drawn when the count is positive.
Charged(w) ==
    [magnet |-> w.magnet_count > 0 /\ ~w.bjud_magnet,
     camera |-> w.camera_count > 0 /\ ~w.bjud_camera,
     fire |-> w.fire_count > 0 /\ ~w.bjud_fire]

\* a mutation: the magnets are billed at the camera price
ExtrasCharged_camera_price(w) ==
    Kr((IF Charged(w).magnet THEN w.magnet_count * EXTRA_CAMERA ELSE 0)
       + (IF Charged(w).camera THEN w.camera_count * EXTRA_CAMERA ELSE 0)
       + (IF Charged(w).fire THEN w.fire_count * EXTRA_FIRE ELSE 0))

\* extras_charged, extras_charged_final, extras_charged_final_for_text
ExtrasCharged(w) ==
    Kr((IF Charged(w).magnet THEN w.magnet_count * EXTRA_MAGNET ELSE 0)
       + (IF Charged(w).camera THEN w.camera_count * EXTRA_CAMERA ELSE 0)
       + (IF Charged(w).fire THEN w.fire_count * EXTRA_FIRE ELSE 0))

\* the standard offer
StandardOffer(w) ==
    LET base_price == IF w.is_over_70 THEN Kr(BASE_OVER_70) ELSE Kr(BASE_UNDER_70)
        extras_total_full ==
            Kr(w.magnet_count * EXTRA_MAGNET
               + w.camera_count * EXTRA_CAMERA
               + w.fire_count * EXTRA_FIRE)
        financed_full == base_price + extras_total_full + Kr(INSTALLATION_COST)
        plans_full == compute_plans(financed_full)
        selected_plan_full ==
            plans_full[CHOOSE i \in 1..Len(plans_full) :
                /\ plans_full[i].label = w.selected_term_label
                /\ \A j \in 1..(i - 1) : plans_full[j].label # w.selected_term_label]
        budget == choose_best_plan_for_budget(plans_full, w.desired_monthly)
    IN  [base_price |-> base_price,
         extras_total_full |-> extras_total_full,
         financed_full |-> financed_full,
         plans_full |-> plans_full,
         selected_plan_full |-> selected_plan_full,
         best_budget_plan |-> budget.plan,
         budget_status |-> budget.status]

\* a mutation: the saving is taken against the budget matcher's plan
DiscountOffer_against_budget_plan(w, std) ==
    IF /\ (w.magnet_count # 0 \/ w.camera_count # 0 \/ w.fire_count # 0)
       /\ (~Charged(w).magnet \/ ~Charged(w).camera \/ ~Charged(w).fire)
    THEN
        LET extras_charged == ExtrasCharged(w)
            financed_discount == std.base_price + extras_charged + Kr(INSTALLATION_COST)
            plans_discount == compute_plans(financed_discount)
            match == choose_discount_plan_to_match_price(
                         plans_discount, w.desired_monthly, w.tolerance)
        IN  [taken |-> TRUE,
             extras_charged |-> extras_charged,
             financed_discount |-> financed_discount,
             plans_discount |-> plans_discount,
             discount_plan |-> match.plan,
             within_tol |-> match.within_tol,
             discount_amount_total |-> std.best_budget_plan.total - match.plan.total,
             extras_discount_value |-> std.extras_total_full - extras_charged]
    ELSE
        [taken |-> FALSE, discount_plan |-> None, discount_amount_total |-> 0]

\* the discounted offer; std is the standard offer of the same run
DiscountOffer(w, std) ==
    IF /\ (w.magnet_count # 0 \/ w.camera_count # 0 \/ w.fire_count # 0)
       /\ (~Charged(w).magnet \/ ~Charged(w).camera \/ ~Charged(w).fire)
    THEN
        LET extras_charged == ExtrasCharged(w)
            financed_discount == std.base_price + extras_charged + Kr(INSTALLATION_COST)
            plans_discount == compute_plans(financed_discount)
            match == choose_discount_plan_to_match_price(
                         plans_discount, w.desired_monthly, w.tolerance)
        IN  [taken |-> TRUE,
             extras_charged |-> extras_charged,
             financed_discount |-> financed_discount,
             plans_discount |-> plans_discount,
             discount_plan |-> match.plan,
             within_tol |-> match.within_tol,
             discount_amount_total |-> std.selected_plan_full.total - match.plan.total,
             extras_discount_value |-> std.extras_total_full - extras_charged]
    ELSE
        [taken |-> FALSE, discount_plan |-> None, discount_amount_total |-> 0]

\* a mutation: the penalty is taken after the mileage has been added
Commission_penalty_on_miles(w, discount_plan) ==
    LET total_before_comp ==
            Kr(BASE_COMMISSION_PER_DEAL)
            + Percent(ExtrasCharged(w), UPSELL_COMMISSION_RATE)
            + Percent(Kr(INSTALLATION_COST), INSTALL_COMMISSION_RATE)
        has_comp ==
            \/ (w.magnet_count # 0 /\ ~Charged(w).magnet)
            \/ (w.camera_count # 0 /\ ~Charged(w).camera)
            \/ (w.fire_count # 0 /\ ~Charged(w).fire)
            \/ discount_plan # None
        mile_comp_total == Percent(w.miles_driven * Kr(MILE_COMP), 1)
        total_after_comp ==
            IF has_comp
            THEN Percent(total_before_comp, 100 - COMPENSATION_PENALTY_RATE)
            ELSE total_before_comp
    IN  [total_before_comp |-> total_before_comp,
         has_comp |-> has_comp,
         total_after_comp |-> total_after_comp,
         comp_penalty |-> total_before_comp - total_after_comp,
         mile_comp_total |-> mile_comp_total,
         total_incl_miles |->
            IF has_comp
            THEN Percent(total_before_comp + mile_comp_total,
                         100 - COMPENSATION_PENALTY_RATE)
            ELSE total_before_comp + mile_comp_total]

\* the commission block; offer_plan_for_calc is a plan in every run, so the
\* branch "if offer_plan_for_calc:" is always taken
Commission(w, discount_plan) ==
    LET extras_charged_final == ExtrasCharged(w)
        base_comm == Kr(BASE_COMMISSION_PER_DEAL)
        upsell_comm == Percent(extras_charged_final, UPSELL_COMMISSION_RATE)
        install_comm == Percent(Kr(INSTALLATION_COST), INSTALL_COMMISSION_RATE)
        total_before_comp == base_comm + upsell_comm + install_comm
        has_comp ==
            \/ (w.magnet_count # 0 /\ ~Charged(w).magnet)
            \/ (w.camera_count # 0 /\ ~Charged(w).camera)
            \/ (w.fire_count # 0 /\ ~Charged(w).fire)
            \/ discount_plan # None
        total_after_comp ==
            IF has_comp
            THEN Percent(total_before_comp, 100 - COMPENSATION_PENALTY_RATE)
            ELSE total_before_comp
        comp_penalty == total_before_comp - total_after_comp
        \* miles_driven * MILE_COMP; MILE_COMP is held in öre, 1/100 kr
        mile_comp_total == Percent(w.miles_driven * Kr(MILE_COMP), 1)
    IN  [total_before_comp |-> total_before_comp,
         has_comp |-> has_comp,
         total_after_comp |-> total_after_comp,
         comp_penalty |-> comp_penalty,
         mile_comp_total |-> mile_comp_total,
         total_incl_miles |-> total_after_comp + mile_comp_total]

\* offer_plan_for_calc = discount_plan or selected_plan_full; a plan is a
\* dict with four keys, so it is false only when it is None
OfferPlan(discount_plan, selected_plan_full) ==
    IF discount_plan # None THEN discount_plan ELSE selected_plan_full

\* the parts of the offer text that depend on the plans
generate_offer_text(standard_plan, discount_plan, discount_amount_total) ==
    [plan_used |-> IF discount_plan # None THEN discount_plan ELSE standard_plan,
     label_used |-> IF discount_plan # None THEN "Rabatterat erbjudande"
                    ELSE "Standarderbjudande",
     discount_lines |-> discount_plan # None /\ discount_amount_total > 0]

\* one run of the script
Run(w) ==
    LET std == StandardOffer(w)
        disc == DiscountOffer(w, std)
    IN  [standard |-> std,
         discount |-> disc,
         offer_plan_for_calc |-> OfferPlan(disc.discount_plan, std.selected_plan_full),
         commission |-> Commission(w, disc.discount_plan),
         offer_text |-> generate_offer_text(std.selected_plan_full,
                                            disc.discount_plan,
                                            disc.discount_amount_total)]

\* no button was clicked in the run
NoClick == [button |-> "none"]

\* the counts and the miles are unbounded in the program
MaxCount == 1
MaxMiles == 1

TermLabels == {PAYMENT_OPTIONS[i][1] : i \in 1..Len(PAYMENT_OPTIONS)}

\* "Kundens önskade belopp": min_value=0.0, any amount; these are tried
DesiredChoices == {Kr(0), Kr(800), Kr(20000)}

\* the slider: 0..500 in steps of 10; these are tried
ToleranceChoices == {Kr(50), Kr(500)}

\* the widgets of the first run show their defaults
InitWidgets ==
    [is_over_70 |-> TRUE,
     magnet_count |-> 0, camera_count |-> 0, fire_count |-> 0,
     bjud_magnet |-> FALSE, bjud_camera |-> FALSE, bjud_fire |-> FALSE,
     selected_term_label |-> PAYMENT_OPTIONS[1][1],
     desired_monthly |-> Kr(800),
     tolerance |-> Kr(50),
     miles_driven |-> 0]

Init ==
    /\ widgets = InitWidgets
    /\ locals = Run(InitWidgets)
    /\ shown = NoClick
    /\ FnParked /\ BonusParked /\ StoreParked

\* the user changed a widget to give w; the script reruns
Rerun(w) ==
    /\ widgets' = w
    /\ locals' = Run(w)
    /\ shown' = NoClick
    /\ UNCHANGED <<fnVars, bonusVars, storeVars>>

SetAge ==
    \E b \in BOOLEAN : Rerun([widgets EXCEPT !.is_over_70 = b])

\* a checkbox that is not drawn in a run loses its state
SetMagnetCount ==
    \E n \in 0..MaxCount :
        Rerun([widgets EXCEPT !.magnet_count = n,
                              !.bjud_magnet = (n > 0 /\ @)])

SetCameraCount ==
    \E n \in 0..MaxCount :
        Rerun([widgets EXCEPT !.camera_count = n,
                              !.bjud_camera = (n > 0 /\ @)])

SetFireCount ==
    \E n \in 0..MaxCount :
        Rerun([widgets EXCEPT !.fire_count = n,
                              !.bjud_fire = (n > 0 /\ @)])

ToggleBjudMagnet ==
    /\ widgets.magnet_count > 0
    /\ Rerun([widgets EXCEPT !.bjud_magnet = ~@])

ToggleBjudCamera ==
    /\ widgets.camera_count > 0
    /\ Rerun([widgets EXCEPT !.bjud_camera = ~@])

ToggleBjudFire ==
    /\ widgets.fire_count > 0
    /\ Rerun([widgets EXCEPT !.bjud_fire = ~@])

SelectTerm ==
    \E l \in TermLabels : Rerun([widgets EXCEPT !.selected_term_label = l])

SetDesiredMonthly ==
    \E d \in DesiredChoices : Rerun([widgets EXCEPT !.desired_monthly = d])

SetTolerance ==
    \E t \in ToleranceChoices : Rerun([widgets EXCEPT !.tolerance = t])

SetMilesDriven ==
    \E m \in 0..MaxMiles : Rerun([widgets EXCEPT !.miles_driven = m])

Next ==
    \/ SetAge
    \/ SetMagnetCount
    \/ SetCameraCount
    \/ SetFireCount
    \/ ToggleBjudMagnet
    \/ ToggleBjudCamera
    \/ ToggleBjudFire
    \/ SelectTerm
    \/ SetDesiredMonthly
    \/ SetTolerance
    \/ SetMilesDriven

Spec == Init /\ [][Next]_vars

----------------------------------------------------------------------------
(* SpecClick: the buttons "Beräkna långtidsjämförelse" and "Spara          *)
(* kundprofil".  A click reruns the script with the widgets as they are;   *)
(* shown holds what the handler of the button built in that run.  The      *)
(* initial states are the widget states of Spec.  The handler of the save  *)
(* button goes on to append the record and to write the file: that part is *)
(* SaveClick of SpecStore.                                                 *)

SERVICE_HALF_YEAR == 594
\* 594 / 6 is 99 exactly
SERVICE_MONTHLY == SERVICE_HALF_YEAR \div 6

horizons == << <<"3 år", 36>>, <<"5 år", 60>>, <<"10 år", 120>>, <<"15 år", 180>> >>

Min(a, b) == IF a <= b THEN a ELSE b
Max(a, b) == IF a >= b THEN a ELSE b

\* round(x, 2), x in 1/Scale kronor, the result in öre: x * 100 / 360 is
\* never halfway between two whole numbers, so this is the nearest one
Round2(x) == (x * 5 + 9) \div 18

\* a mutation: the service months are not cut off at 0
ComparisonRow_no_max(offer_plan, months, comp_monthly, comp_start) ==
    LET our_monthly == offer_plan.monthly
        our_months == offer_plan.months
        cost_full == our_monthly * Min(months, our_months)
        months_service == months - our_months
        cost_service == Kr(SERVICE_MONTHLY) * months_service
        our_total == Kr(START_FEE) + cost_full + cost_service
        comp_total == comp_start + comp_monthly * months
    IN  [months |-> months, our_total |-> our_total, comp_total |-> comp_total,
         diff |-> comp_total - our_total,
         our_cost |-> Round2(our_total), comp_cost |-> Round2(comp_total),
         diff_shown |-> Round2(comp_total - our_total)]

\* one pass of the loop over the horizons
ComparisonRow(offer_plan, months, comp_monthly, comp_start) ==
    LET our_monthly == offer_plan.monthly
        our_months == offer_plan.months
        months_full == Min(months, our_months)
        cost_full == our_monthly * months_full
        months_service == Max(0, months - our_months)
        cost_service == Kr(SERVICE_MONTHLY) * months_service
        our_total == Kr(START_FEE) + cost_full + cost_service
        comp_total == comp_start + comp_monthly * months
        diff == comp_total - our_total
    IN  [months |-> months, our_total |-> our_total, comp_total |-> comp_total,
         diff |-> diff,
         our_cost |-> Round2(our_total), comp_cost |-> Round2(comp_total),
         diff_shown |-> Round2(diff)]

\* the handler of "Beräkna långtidsjämförelse"
long_term_comparison(offer_plan, comp_monthly, comp_start) ==
    IF offer_plan = None
    THEN [button |-> "compare", warning |-> TRUE]
    ELSE [button |-> "compare", warning |-> FALSE,
          comp_monthly |-> comp_monthly, comp_start |-> comp_start,
          rows |-> [i \in 1..Len(horizons) |->
                      ComparisonRow(offer_plan, horizons[i][2],
                                    comp_monthly, comp_start)],
          stl_monthly_curve |->
              [year \in 1..15 |->
                  IF year * 12 <= offer_plan.months
                  THEN Round2(offer_plan.monthly)
                  ELSE Round2(Kr(SERVICE_MONTHLY))]]

\* a mutation: the record is filled from the budget matcher's plan
SaveRecord_budget_plan(w, run) ==
    [is_over_70 |-> w.is_over_70,
     base_price |-> run.standard.base_price,
     magnet_count |-> w.magnet_count,
     camera_count |-> w.camera_count,
     fire_count |-> w.fire_count,
     monthly |-> run.standard.best_budget_plan.monthly,
     months |-> run.standard.best_budget_plan.months,
     total |-> run.standard.best_budget_plan.total]

\* the record of "Spara kundprofil"; its timestamp and the four text fields
\* of the sidebar are left out
SaveRecord(w, run) ==
    [is_over_70 |-> w.is_over_70,
     base_price |-> run.standard.base_price,
     magnet_count |-> w.magnet_count,
     camera_count |-> w.camera_count,
     fire_count |-> w.fire_count,
     monthly |-> IF run.offer_plan_for_calc # None
                 THEN run.offer_plan_for_calc.monthly ELSE 0,
     months |-> IF run.offer_plan_for_calc # None
                THEN run.offer_plan_for_calc.months ELSE 0,
     total |-> IF run.offer_plan_for_calc # None
               THEN run.offer_plan_for_calc.total ELSE 0]

\* the widget states: every combination within the bounds; the checkbox of
\* an extra whose count is 0 is not drawn
WidgetStates ==
    {w \in [is_over_70 : BOOLEAN,
            magnet_count : 0..MaxCount, camera_count : 0..MaxCount,
            fire_count : 0..MaxCount,
            bjud_magnet : BOOLEAN, bjud_camera : BOOLEAN, bjud_fire : BOOLEAN,
            selected_term_label : TermLabels,
            desired_monthly : DesiredChoices,
            tolerance : ToleranceChoices,
            miles_driven : 0..MaxMiles] :
        /\ w.bjud_magnet => w.magnet_count > 0
        /\ w.bjud_camera => w.camera_count > 0
        /\ w.bjud_fire => w.fire_count > 0}

\* "Konkurrentens månadskostnad" and "Konkurrentens startavgift":
\* min_value=0.0, any amount; these are tried
CompMonthlyChoices == {Kr(0), Kr(499)}
CompStartChoices == {Kr(0), Kr(1000)}

InitClick ==
    /\ widgets \in WidgetStates
    /\ locals = Run(widgets)
    /\ shown = NoClick
    /\ FnParked /\ BonusParked /\ StoreParked

ClickCompare ==
    /\ \E comp_monthly \in CompMonthlyChoices, comp_start \in CompStartChoices :
          shown' = long_term_comparison(locals.offer_plan_for_calc,
                                        comp_monthly, comp_start)
    /\ UNCHANGED <<widgets, locals, fnVars, bonusVars, storeVars>>

ClickSave ==
    /\ shown' = [button |-> "save", record |-> SaveRecord(widgets, locals)]
    /\ UNCHANGED <<widgets, locals, fnVars, bonusVars, storeVars>>

NextClick == ClickCompare \/ ClickSave

SpecClick == InitClick /\ [][NextClick]_vars

----------------------------------------------------------------------------
(* Claims about the quote, checked under Spec.  The figures are restated   *)
(* from the widgets, in kronor.                                            *)

\* value of the extras the customer pays for
BilledKr ==
    (IF widgets.magnet_count > 0 /\ ~widgets.bjud_magnet
        THEN widgets.magnet_count * 1000 ELSE 0)
    + (IF widgets.camera_count > 0 /\ ~widgets.bjud_camera
        THEN widgets.camera_count * 2200 ELSE 0)
    + (IF widgets.fire_count > 0 /\ ~widgets.bjud_fire
        THEN widgets.fire_count * 2000 ELSE 0)

\* value of all the extras
AllExtrasKr ==
    widgets.magnet_count * 1000 + widgets.camera_count * 2200
        + widgets.fire_count * 2000

\* some extra with a positive count is given for free
AnyComped ==
    \/ widgets.magnet_count > 0 /\ widgets.bjud_magnet
    \/ widgets.camera_count > 0 /\ widgets.bjud_camera
    \/ widgets.fire_count > 0 /\ widgets.bjud_fire

BasePriceKr == IF widgets.is_over_70 THEN 30990 ELSE 32400

\* C5: the sum before the penalty is 2500 + 10% of the billed extras + 20% of
\* 5000; the commission is 80% of it when an extra is comped or a discount
\* plan is used, otherwise the sum itself; the mileage, miles * 25.50, is
\* added after the penalty and does not depend on it.
C5_Commission ==
    LET c == locals.commission
    IN  /\ 10 * c.total_before_comp = (25000 + BilledKr + 10000) * Scale
        /\ IF AnyComped \/ locals.discount.discount_plan # None
           THEN 100 * c.total_after_comp = 80 * c.total_before_comp
           ELSE c.total_after_comp = c.total_before_comp
        /\ 2 * c.mile_comp_total = 51 * widgets.miles_driven * Scale
        /\ c.total_incl_miles = c.total_after_comp + c.mile_comp_total

C5_Witness ==
    /\ AnyComped
    /\ BilledKr > 0
    /\ widgets.miles_driven > 0
    /\ locals.commission.total_after_comp < locals.commission.total_before_comp

\* C8: whenever a discount plan is computed, its financed amount, base +
\* billed extras + installation, is at most the standard offer's, base + all
\* extras + installation.
C8_DiscountFinanced ==
    locals.discount.taken =>
        /\ locals.discount.financed_discount = (BasePriceKr + BilledKr + 5000) * Scale
        /\ locals.standard.financed_full = (BasePriceKr + AllExtrasKr + 5000) * Scale
        /\ locals.discount.financed_discount <= locals.standard.financed_full

C8_Witness ==
    /\ locals.discount.taken
    /\ BilledKr > 0
    /\ locals.discount.financed_discount < locals.standard.financed_full

----------------------------------------------------------------------------
(* SpecStore: the customer list of the session and customers.json.         *)
(* A record stands for the dict a save click builds; json.dump followed by *)
(* json.load returns the strings, booleans and numbers of such dicts       *)
(* unchanged, so the file is held as the list that was written.            *)

MaxRecord == 2
MaxStored == 1
MaxCustomers == 3

Records == 1..MaxRecord

SeqsUpTo(S, n) == UNION {[1..k -> S] : k \in 0..n}

\* customers.json: not there, there with text that json.load rejects, or
\* there with a list
Absent == [state |-> "absent", data |-> <<>>]
Corrupt == [state |-> "corrupt", data |-> <<>>]
Stored(list) == [state |-> "list", data |-> list]

\* opened tells whether open(CUSTOMER_FILE, "r") succeeds
load_customers(d, opened) ==
    IF d.state # "absent"
    THEN IF opened /\ d.state = "list" THEN d.data ELSE <<>>
    ELSE <<>>

\* a mutation: no try/except around the write
save_customers_unguarded(cs, d, outcome) ==
    CASE outcome = "ok" -> [disk |-> Stored(cs), raised |-> FALSE]
      [] outcome = "open fails" -> [disk |-> d, raised |-> TRUE]
      [] outcome = "dump fails" -> [disk |-> Corrupt, raised |-> TRUE]

\* a mutation: the file is opened for appending the newest record only
save_customers_last_only(cs, d, outcome) ==
    CASE outcome = "ok" -> [disk |-> Stored(<<cs[Len(cs)]>>), raised |-> FALSE]
      [] outcome = "open fails" -> [disk |-> d, raised |-> FALSE]
      [] outcome = "dump fails" -> [disk |-> Corrupt, raised |-> FALSE]

\* the file after save_customers(cs) and whether the call raised.  open(.., "w")
\* may fail and leave the file as it was; once it succeeded the file is cut
\* to nothing, and a json.dump that fails leaves a part of the text.
save_customers(cs, d, outcome) ==
    CASE outcome = "ok" -> [disk |-> Stored(cs), raised |-> FALSE]
      [] outcome = "open fails" -> [disk |-> d, raised |-> FALSE]
      [] outcome = "dump fails" -> [disk |-> Corrupt, raised |-> FALSE]

WriteOutcomes == {"ok", "open fails", "dump fails"}

\* the first run of a session: "customers" is not in st.session_state
BeginSession(opened) ==
    /\ customers' = load_customers(disk, opened)
    /\ loaded' = load_customers(disk, opened)
    /\ clicks' = <<>>
    /\ notice' = ""
    /\ io' = [read |-> IF disk.state = "absent" THEN "absent"
                       ELSE IF opened /\ disk.state = "list" THEN "ok"
                       ELSE "failed",
              write |-> "none"]

InitStore ==
    /\ disk \in {Absent, Corrupt} \cup {Stored(l) : l \in SeqsUpTo(Records, MaxStored)}
    /\ \E opened \in BOOLEAN :
          /\ customers = load_customers(disk, opened)
          /\ loaded = load_customers(disk, opened)
          /\ io = [read |-> IF disk.state = "absent" THEN "absent"
                            ELSE IF opened /\ disk.state = "list" THEN "ok"
                            ELSE "failed",
                   write |-> "none"]
    /\ clicks = <<>>
    /\ notice = ""
    /\ FnParked /\ BonusParked /\ QuoteParked

\* the browser is reloaded: a new session, which loads the file again
StartSession ==
    /\ \E opened \in BOOLEAN : BeginSession(opened)
    /\ UNCHANGED <<disk, fnVars, bonusVars, quoteVars>>

\* the button "Spara kundprofil"
SaveClick ==
    /\ Len(customers) < MaxCustomers
    /\ \E record \in Records, outcome \in WriteOutcomes :
          LET appended == Append(customers, record)
              saved == save_customers(appended, disk, outcome)
          IN  /\ customers' = appended
              /\ disk' = saved.disk
              /\ notice' = IF saved.raised THEN "exception"
                           ELSE "Kundprofil sparad."
              /\ clicks' = Append(clicks, record)
              /\ io' = [io EXCEPT !.write = IF outcome = "ok" THEN "ok" ELSE "failed"]
    /\ UNCHANGED <<loaded, fnVars, bonusVars, quoteVars>>

NextStore == StartSession \/ SaveClick

SpecStore == InitStore /\ [][NextStore]_vars

\* C9: a save click appends exactly one record at the end of the list and
\* leaves the earlier records as they were; when the last write succeeded the
\* file holds the list loaded at startup followed by the records of the save
\* clicks in click order, which is the whole list.
C9_AppendOnly ==
    /\ [][Len(clicks') = Len(clicks) + 1 =>
            /\ Len(customers') = Len(customers) + 1
            /\ SubSeq(customers', 1, Len(customers)) = customers
            /\ customers'[Len(customers')] = clicks'[Len(clicks')]]_vars
    /\ [](io.write = "ok" =>
            /\ disk.state = "list"
            /\ disk.data = loaded \o clicks
            /\ disk.data = customers)

C9_Witness ==
    /\ io.write = "ok"
    /\ loaded # <<>>
    /\ Len(clicks) >= 2
    /\ clicks[1] # clicks[2]

\* C10: load_customers returns the empty list when the file is absent and
\* when opening or parsing it fails; a save whose write fails raises nothing,
\* leaves the new record at the end of the in-memory list and shows the same
\* message as a save that succeeded.
C10_FailuresSwallowed ==
    /\ io.read \in {"absent", "failed"} => loaded = <<>>
    /\ io.write # "none" =>
          /\ notice = "Kundprofil sparad."
          /\ customers # <<>>
          /\ customers[Len(customers)] = clicks[Len(clicks)]
          /\ Len(customers) = Len(loaded) + Len(clicks)

\* a failed write in a session that began with a failed load of a file
C10_Witness ==
    /\ io.read = "failed"
    /\ io.write = "failed"
    /\ disk.state = "list"
    /\ Len(clicks) >= 2

\* C12: a discount plan is computed, and the 20% penalty taken from the
\* commission, exactly when some extra with a positive count is given for
\* free; when every selected extra is charged there is no discount plan and
\* no penalty, also when some types have count 0.
C12_DiscountIffComped ==
    /\ locals.discount.taken <=> AnyComped
    /\ locals.discount.discount_plan # None <=> AnyComped
    /\ locals.commission.has_comp <=> AnyComped
    /\ locals.commission.total_after_comp < locals.commission.total_before_comp
          <=> AnyComped

\* the term of the plan chosen in the selectbox
SelectedMonths ==
    CHOOSE m \in {3, 12, 24, 36, 60, 72, 120} :
        \E i \in 1..7 : PAYMENT_OPTIONS[i] = <<widgets.selected_term_label, m>>

\* C13 as stated, in the runs where an extra is given for free: whenever a
\* discount plan is computed its total is at most the total of the standard
\* plan of the selected term, discount_amount_total is >= 0.
C13_DiscountNeverDearer ==
    (locals.discount.taken /\ AnyComped) =>
        /\ locals.discount.discount_plan.total <= locals.standard.selected_plan_full.total
        /\ locals.discount.discount_amount_total >= 0

\* C13 amended: whenever a discount plan is computed, discount_amount_total
\* is the value of the extras not billed plus 49 for every month by which
\* the selected term exceeds the discount plan's term; it is >= 0 when the
\* discount plan's term is not longer than the selected term and can be
\* negative otherwise, and the offer text lists the saving only when it is
\* positive.
C13_DiscountAmount ==
    locals.discount.taken =>
        LET amount == locals.discount.discount_amount_total
            discount_months == locals.discount.discount_plan.months
        IN  /\ amount = locals.standard.selected_plan_full.total
                          - locals.discount.discount_plan.total
            /\ amount = (AllExtrasKr - BilledKr) * Scale
                          + 49 * Scale * (SelectedMonths - discount_months)
            /\ discount_months <= SelectedMonths => amount >= 0
            /\ locals.offer_text.discount_lines <=> amount > 0

\* a discount plan dearer in total than the selected standard plan, although
\* an extra is given for free
C13_Witness ==
    /\ locals.discount.taken
    /\ AnyComped
    /\ locals.discount.discount_amount_total < 0
    /\ ~locals.offer_text.discount_lines

----------------------------------------------------------------------------
(* Claims about the buttons, checked under SpecClick *)

\* the standard plan of the term chosen in the selectbox
SelectedStandardPlan ==
    CHOOSE p \in {locals.standard.plans_full[i] : i \in 1..7} :
        p.label = widgets.selected_term_label

\* the discount plan when the run computed one, else the selected standard plan
ExpectedOfferPlan ==
    IF locals.discount.taken THEN locals.discount.discount_plan
    ELSE SelectedStandardPlan

\* C11: the plan of the saved record, of the offer text and of the competitor
\* comparison is the discount plan whenever one was computed, otherwise the
\* standard plan of the selected term, whatever the budget matcher chose;
\* it is never absent, so the record holds the monthly, months and total of
\* a plan of the run and never the 0 fallback.
C11_OfferPlan ==
    /\ locals.offer_plan_for_calc = ExpectedOfferPlan
    /\ locals.offer_text.plan_used = ExpectedOfferPlan
    /\ ExpectedOfferPlan # None
    /\ ExpectedOfferPlan.months \in {3, 12, 24, 36, 60, 72, 120}
    /\ ExpectedOfferPlan.monthly > 0
    /\ locals.discount.taken =>
          \E i \in 1..7 : ExpectedOfferPlan = locals.discount.plans_discount[i]
    /\ shown.button = "save" =>
          /\ shown.record.monthly = ExpectedOfferPlan.monthly
          /\ shown.record.months = ExpectedOfferPlan.months
          /\ shown.record.total = ExpectedOfferPlan.total
          /\ shown.record.months # 0
    /\ shown.button = "compare" =>
          /\ ~shown.warning
          /\ shown.rows[4].our_total =
                ExpectedOfferPlan.total + (180 - ExpectedOfferPlan.months) * 99 * Scale

\* a record saved from a discount plan that is neither the selected standard
\* plan nor the budget matcher's plan
C11_Witness ==
    /\ shown.button = "save"
    /\ locals.discount.taken
    /\ shown.record.total # SelectedStandardPlan.total
    /\ shown.record.total # locals.standard.best_budget_plan.total
    /\ locals.standard.best_budget_plan # SelectedStandardPlan

\* C15: for each horizon h of 36, 60, 120, 180 months and the offered plan of
\* term t, the STL total is 594 + monthly*min(h, t) + 99*max(0, h - t); for
\* h >= t that is the plan's total plus 99 for every month after the term,
\* for h < t it is below the plan's total; the competitor's total is its
\* start fee + its monthly rent * h.
C15_Comparison ==
    shown.button = "compare" =>
        /\ ~shown.warning
        /\ Len(shown.rows) = 4
        /\ \A i \in 1..4 :
              LET h == <<36, 60, 120, 180>>[i]
                  p == locals.offer_plan_for_calc
                  t == p.months
                  r == shown.rows[i]
              IN  /\ r.months = h
                  /\ r.our_total =
                        594 * Scale
                        + p.monthly * (IF h <= t THEN h ELSE t)
                        + 99 * Scale * (IF h > t THEN h - t ELSE 0)
                  /\ h >= t => r.our_total = p.total + 99 * Scale * (h - t)
                  /\ h < t => r.our_total < p.total
                  /\ r.comp_total = shown.comp_start + shown.comp_monthly * h
                  /\ r.diff = r.comp_total - r.our_total

\* a comparison for a 72-month plan, which two horizons fall short of and two
\* exceed, against a competitor with a rent and a start fee
C15_Witness ==
    /\ shown.button = "compare"
    /\ locals.offer_plan_for_calc.months = 72
    /\ shown.comp_monthly > 0
    /\ shown.comp_start > 0

====
